---- MODULE Spec2Model ----
(***************************************************************************)
(* Model of the validation logic of the rent-backend serializers           *)
(* (src/api/serializers.py) on top of the Settings defaults of             *)
(* src/backend/settings.py.                                                *)
(*                                                                         *)
(* Dates are whole days counted from 1970-01-01 (a Thursday); durations    *)
(* (timedelta) are whole days.  Strings that the code parses (the values   *)
(* of the Settings table, e-mail addresses) are sequences of one-character *)
(* strings.                                                                *)
(***************************************************************************)
EXTENDS Integers, Sequences, FiniteSets

VARIABLES
    settings,       \* the Settings table: type -> value
    reservations,   \* the Reservation table
    request,        \* <<data>> of the reservation request being handled, or <<>>
    lastOutcome,    \* what became of the reservation request handled last
    pc,             \* concurrent requests: where each request handler stands
    req,            \* concurrent requests: the data each handler was given
    verdict,        \* concurrent requests: what validation told each handler
    users,          \* the User table
    registration,   \* <<data>> of the registration being handled, or <<>>
    regOutcome,     \* what became of the registration handled last
    serializer      \* <<the RentalSerializer built last>>, or <<>>

vars == <<settings, reservations, request, lastOutcome, pc, req, verdict,
          users, registration, regOutcome, serializer>>

resVars == <<reservations, request, lastOutcome>>
concVars == <<pc, req, verdict>>
userVars == <<users, registration, regOutcome, serializer>>

None == "None"

-----------------------------------------------------------------------------
(* Bounds *)

MaxDay == 9
MaxCount == 2

-----------------------------------------------------------------------------
(* Program constants *)

DEFAULT_LENTING_DAY_OF_WEEK == 4
DEFAULT_RETURNING_DAY_OF_WEEK == 4
GraceDays == 7

-----------------------------------------------------------------------------
(* Python built-ins used by the serializers *)

Digits == <<"0", "1", "2", "3", "4", "5", "6", "7", "8", "9">>

DigitValue(c) == (CHOOSE i \in 1..10 : Digits[i] = c) - 1

RECURSIVE DecimalValue(_)
DecimalValue(s) ==
    IF s = <<>> THEN 0
    ELSE 10 * DecimalValue(SubSeq(s, 1, Len(s) - 1)) + DigitValue(s[Len(s)])

\* int(value): the number a string of decimal digits denotes (the values
\* stored for the day settings are decimal numerals)
int(s) == DecimalValue(s)

\* str(n) for the one-digit defaults of settings.py
str(n) == <<Digits[n + 1]>>

\* date.isoweekday(): Monday is 1, Sunday is 7; day 0 is a Thursday.
isoweekday(d) == ((d + 3) % 7) + 1

-----------------------------------------------------------------------------
(* base.models, as far as the serializers use it *)

ObjectTypes == {"tent"}

Profiles == {[id |-> 1, prio |-> "low"], [id |-> 2, prio |-> "high"]}

OperationNumbers == {1}

Days == 0..MaxDay

\* MaxRentDuration rows: the duration configured per object type and priority
max_rent_duration(pk, prio) ==
    [duration |-> IF prio = "low" THEN 1 ELSE 7]

\* number of RentalObjects of a type
TotalObjects(pk) == 2

RECURSIVE SumCounts(_)
SumCounts(rs) ==
    IF rs = {} THEN 0
    ELSE LET r == CHOOSE x \in rs : TRUE
         IN  r.count + SumCounts(rs \ {r})

Overlapping(db, pk, from_date, until_date) ==
    {r \in db : /\ r.objecttype = pk
                /\ r.reserved_from <= until_date
                /\ r.reserved_until >= from_date}

\* RentalObjectType.available: the objects of the type that no reservation
\* overlapping the date range holds
available(db, pk, from_date, until_date) ==
    [available |-> TotalObjects(pk)
                     - SumCounts(Overlapping(db, pk, from_date, until_date))]

-----------------------------------------------------------------------------
(* BulkReservationSerializer *)

ReservationData ==
    [reserver : Profiles, operation_number : OperationNumbers,
     objecttype : ObjectTypes, reserved_from : Days, reserved_until : Days,
     count : 1..MaxCount]

\* Meta.validators: UniqueTogetherValidator
UniqueTogether(db, data) ==
    ~ \E r \in db : /\ r.reserver = data.reserver
                    /\ r.operation_number = data.operation_number
                    /\ r.objecttype = data.objecttype

\* faulty variant: two weeks of grace instead of one
ExceedsMaxRentDuration_TwoWeeks(data) ==
    max_rent_duration(data.objecttype, data.reserver.prio).duration + 2 * GraceDays
        < data.reserved_until - data.reserved_from

ExceedsMaxRentDuration(data) ==
    max_rent_duration(data.objecttype, data.reserver.prio).duration + GraceDays
        < data.reserved_until - data.reserved_from

\* faulty variant: the count is compared with all objects of the type
NotEnoughObjects_IgnoresReservations(db, data) ==
    data.count > available({}, data.objecttype, data.reserved_from,
                           data.reserved_until).available

NotEnoughObjects(db, data) ==
    data.count > available(db, data.objecttype, data.reserved_from,
                           data.reserved_until).available

NotLentingDay(conf, data) ==
    isoweekday(data.reserved_from) # int(conf.lenting_day)

\* faulty variant: the end of the reservation is compared with the lenting day
NotReturningDay_LentingDay(conf, data) ==
    isoweekday(data.reserved_until) # int(conf.lenting_day)

NotReturningDay(conf, data) ==
    isoweekday(data.reserved_until) # int(conf.returning_day)

validate(db, conf, data) ==
    IF ExceedsMaxRentDuration(data)
    THEN "the rent duration exceeds max_rent_duration."
    ELSE IF NotLentingDay(conf, data)
    THEN "this day is not a lenting day therefore a reservation can not start here"
    ELSE IF NotReturningDay(conf, data)
    THEN "this day is not a returning day therefore a reservation can not end here"
    ELSE IF data.reserved_from >= data.reserved_until
    THEN "reserved_from must be before reserved_until"
    ELSE IF NotEnoughObjects(db, data)
    THEN "There are not enough objects of this type to fullfill your reservation"
    ELSE "valid"

\* is_valid(): the Meta validators, then validate()
run_validation(db, conf, data) ==
    IF ~ UniqueTogether(db, data)
    THEN "This Combination of reserver, operation_number and object_type already exists"
    ELSE validate(db, conf, data)

\* save(): a new Reservation row under the next primary key
save(db, data) ==
    db \cup {[id |-> Cardinality(db) + 1,
              reserver |-> data.reserver,
              operation_number |-> data.operation_number,
              objecttype |-> data.objecttype,
              reserved_from |-> data.reserved_from,
              reserved_until |-> data.reserved_until,
              count |-> data.count]}

\* A reservation request arrives: the serializer is built on its data
ReceiveReservation(data) ==
    /\ request = <<>>
    /\ request' = <<data>>
    /\ lastOutcome' = None
    /\ UNCHANGED <<settings, reservations, concVars, userVars>>

\* The request is handled: is_valid() and, when valid, save()
CreateReservation ==
    /\ request # <<>>
    /\ LET outcome == run_validation(reservations, settings, request[1]) IN
        /\ lastOutcome' = outcome
        /\ reservations' = IF outcome = "valid"
                           THEN save(reservations, request[1])
                           ELSE reservations
    /\ request' = <<>>
    /\ UNCHANGED <<settings, concVars, userVars>>

-----------------------------------------------------------------------------
(* Two reservation requests handled by two workers at once: nothing in     *)
(* validate() or save() locks the Reservation table                        *)

Procs == {1, 2}

\* requests whose date ranges all share the days 1..7
ConcurrentData ==
    {d \in ReservationData : d.reserved_from <= 1 /\ d.reserved_until >= 7}

Receive(p, data) ==
    /\ pc[p] = "idle"
    /\ pc' = [pc EXCEPT ![p] = "validating"]
    /\ req' = [req EXCEPT ![p] = <<data>>]
    /\ UNCHANGED <<settings, resVars, verdict, userVars>>

IsValid(p) ==
    /\ pc[p] = "validating"
    /\ LET outcome == run_validation(reservations, settings, req[p][1]) IN
        /\ verdict' = [verdict EXCEPT ![p] = outcome]
        /\ pc' = [pc EXCEPT ![p] = IF outcome = "valid" THEN "saving" ELSE "done"]
    /\ UNCHANGED <<settings, resVars, req, userVars>>

Save(p) ==
    /\ pc[p] = "saving"
    /\ reservations' = save(reservations, req[p][1])
    /\ pc' = [pc EXCEPT ![p] = "done"]
    /\ UNCHANGED <<settings, request, lastOutcome, req, verdict, userVars>>

-----------------------------------------------------------------------------
(* Python's re, for the patterns the e-mail setting holds: a compiled       *)
(* pattern is a tree of character sets, +, ? and concatenation              *)

Lower == {"a", "b", "c", "d", "e", "f", "g", "h", "i", "j", "k", "l", "m",
          "n", "o", "p", "q", "r", "s", "t", "u", "v", "w", "x", "y", "z"}
Upper == {"A", "B", "C", "D", "E", "F", "G", "H", "I", "J", "K", "L", "M",
          "N", "O", "P", "Q", "R", "S", "T", "U", "V", "W", "X", "Y", "Z"}
Numerals == {"0", "1", "2", "3", "4", "5", "6", "7", "8", "9"}
Whitespace == {" ", "\t", "\n", "\r", "\f"}

In(cs) == [kind |-> "in", chars |-> cs, sub |-> <<>>]
NotIn(cs) == [kind |-> "not_in", chars |-> cs, sub |-> <<>>]
Plus(r) == [kind |-> "plus", chars |-> {}, sub |-> <<r>>]
Opt(r) == [kind |-> "opt", chars |-> {}, sub |-> <<r>>]
Cat(rs) == [kind |-> "cat", chars |-> {}, sub |-> rs]
Literal(s) == Cat([i \in 1..Len(s) |-> In({s[i]})])

CharMatches(r, c) ==
    \/ r.kind = "in" /\ c \in r.chars
    \/ r.kind = "not_in" /\ c \notin r.chars

\* Ends(r, s, i): the positions at which a match of r that starts at
\* position i of s can end; the backtracking matcher tries all of them
RECURSIVE Ends(_, _, _), CatEnds(_, _, _), PlusEnds(_, _, _, _)
Ends(r, s, i) ==
    CASE r.kind \in {"in", "not_in"} ->
            IF i <= Len(s) /\ CharMatches(r, s[i]) THEN {i + 1} ELSE {}
      [] r.kind = "opt" -> {i} \cup Ends(r.sub[1], s, i)
      [] r.kind = "plus" -> PlusEnds(r.sub[1], s, Ends(r.sub[1], s, i), {})
      [] r.kind = "cat" -> CatEnds(r.sub, s, {i})

CatEnds(rs, s, starts) ==
    IF rs = <<>> THEN starts
    ELSE CatEnds(Tail(rs), s, UNION {Ends(Head(rs), s, i) : i \in starts})

PlusEnds(r, s, frontier, seen) ==
    IF frontier \subseteq seen THEN seen
    ELSE PlusEnds(r, s, UNION {Ends(r, s, i) : i \in frontier \ seen},
                  seen \cup frontier)

Max(S) == CHOOSE x \in S : \A y \in S : y <= x

\* regex.fullmatch(s): <<group(0)>> of a match that spans all of s, or <<>>
\* for None
fullmatch(regex, s) ==
    IF Len(s) + 1 \in Ends(regex, s, 1) THEN <<SubSeq(s, 1, Len(s))>> ELSE <<>>

\* regex.match(s): <<group(0)>> of a match of a prefix of s, or <<>> for None
match(regex, s) ==
    IF Ends(regex, s, 1) # {}
    THEN <<SubSeq(s, 1, Max(Ends(regex, s, 1)) - 1)>>
    ELSE <<>>

\* EMAIL_VALIDATION_REGEX = '\S+@([a-zA-Z0-9]+\.)?rwth-aachen\.de'
EMAIL_VALIDATION_REGEX ==
    Cat(<<Plus(NotIn(Whitespace)), In({"@"}),
          Opt(Cat(<<Plus(In(Lower \cup Upper \cup Numerals)), In({"."})>>)),
          Literal(<<"r", "w", "t", "h", "-", "a", "a", "c", "h", "e", "n">>),
          In({"."}), Literal(<<"d", "e">>)>>)

\* another value of the setting: '\S+@fh\.de'
FhRegex ==
    Cat(<<Plus(NotIn(Whitespace)), In({"@"}), Literal(<<"f", "h">>),
          In({"."}), Literal(<<"d", "e">>)>>)

RegexValues == {EMAIL_VALIDATION_REGEX, FhRegex}

-----------------------------------------------------------------------------
(* UserCreationSerializer *)

RwthDe == <<"r", "w", "t", "h", "-", "a", "a", "c", "h", "e", "n", ".", "d", "e">>

Emails ==
    { <<"a", "@">> \o RwthDe,                       \* a@rwth-aachen.de
      <<"b", "@", "c", "s", ".">> \o RwthDe,        \* b@cs.rwth-aachen.de
      <<"a", "@">> \o RwthDe \o <<".", "t", "v">>,  \* a@rwth-aachen.de.tv
      <<"x", " ", "a", "@">> \o RwthDe,             \* x a@rwth-aachen.de
      <<"a", "@", "f", "h", ".", "d", "e">> }       \* a@fh.de

Usernames == {"anna", "ben"}

\* the request data of a registration; <<>> stands for a key that is absent
RegistrationData ==
    [username : Usernames, email : Emails,
     groups : {<<>>, <<{"admins"}>>},
     is_active : {<<>>, <<TRUE>>},
     profile : {<<>>, <<"valid">>, <<"invalid">>}]

\* faulty variant: regex.match(email), which is content with a prefix
EmailFormatOk_Match(regex, email) ==
    match(regex, email) # <<>>

\* regex.fullmatch(email), and the match is the whole e-mail
EmailFormatOk(regex, email) ==
    LET result == fullmatch(regex, email)
    IN  result # <<>> /\ result[1] = email

\* faulty variant: the filter looks at the users who may log in only
EmailInUse_ActiveOnly(db, email) ==
    Cardinality({u \in db : u.email = email /\ u.is_active}) > 0

\* User.objects.all().filter(email=email).count() > 0
EmailInUse(db, email) ==
    Cardinality({u \in db : u.email = email}) > 0

validate_email(db, conf, email) ==
    IF ~ EmailFormatOk(conf.email_validation_regex, email)
    THEN "Email ist im falsche Format"
    ELSE IF EmailInUse(db, email)
    THEN "Email bereits in Benutzung"
    ELSE None

\* the unique constraint of User.username, checked by the field's validator
validate_username(db, username) ==
    IF \E u \in db : u.username = username
    THEN "A user with that username already exists."
    ELSE None

\* the validated data: the keys of Meta.fields that the request holds
\* (is_active is none of them)
to_internal_value(data) ==
    [username |-> data.username, email |-> data.email,
     groups |-> data.groups, is_active |-> <<>>, profile |-> data.profile]

\* User.objects.create_user(**validated_data): a User row; is_active is True
\* and the groups are empty unless the arguments say otherwise
create_user(db, validated_data) ==
    [id |-> Cardinality(db) + 1,
     username |-> validated_data.username,
     email |-> validated_data.email,
     is_active |-> IF validated_data.is_active = <<>> THEN TRUE
                   ELSE validated_data.is_active[1],
     is_staff |-> FALSE,
     groups |-> IF validated_data.groups = <<>> THEN {}
                ELSE validated_data.groups[1]]

\* faulty variant: create() hands the validated data on as it came
create_AsGiven(db, validated_data) ==
    IF validated_data.profile = <<>>
    THEN [users |-> db, raised |-> "KeyError"]
    ELSE IF validated_data.profile[1] # "valid"
    THEN [users |-> db, raised |-> "ValidationError"]
    ELSE [users |-> db \cup {create_user(db, validated_data)}, raised |-> None]

\* create(), under transaction.atomic: the table afterwards, and what was
\* raised
create(db, validated_data) ==
    LET disabled == [validated_data EXCEPT !.is_active = <<FALSE>>,
                                           !.groups = <<>>]
    IN
    IF disabled.profile = <<>>
    THEN [users |-> db, raised |-> "KeyError"]
    ELSE IF disabled.profile[1] # "valid"
    THEN [users |-> db, raised |-> "ValidationError"]
    ELSE [users |-> db \cup {create_user(db, disabled)}, raised |-> None]

\* A registration arrives
ReceiveRegistration(data) ==
    /\ registration = <<>>
    /\ registration' = <<data>>
    /\ regOutcome' = [raised |-> None, username |-> None, email |-> None,
                      created |-> FALSE]
    /\ UNCHANGED <<settings, resVars, concVars, users, serializer>>

\* The registration is handled: is_valid() and, when valid, save()
CreateUser ==
    /\ registration # <<>>
    /\ LET data == registration[1]
           username_error == validate_username(users, data.username)
           email_error == validate_email(users, settings, data.email)
           created == create(users, to_internal_value(data))
       IN
       IF username_error # None \/ email_error # None
       THEN /\ regOutcome' = [raised |-> "ValidationError",
                              username |-> username_error,
                              email |-> email_error, created |-> FALSE]
            /\ users' = users
       ELSE /\ regOutcome' = [raised |-> created.raised, username |-> None,
                              email |-> None,
                              created |-> created.raised = None]
            /\ users' = created.users
    /\ registration' = <<>>
    /\ UNCHANGED <<settings, resVars, concVars, serializer>>

-----------------------------------------------------------------------------
(* AdminUserSerializer: a staff member makes a user staff, or takes it back *)

AdminUpdate(u, is_staff) ==
    /\ u \in users
    /\ users' = (users \ {u}) \cup {[u EXCEPT !.is_staff = is_staff]}
    /\ UNCHANGED <<settings, resVars, concVars, registration, regOutcome,
                   serializer>>

-----------------------------------------------------------------------------
(* RentalSerializer *)

\* the fields of Rental that the serializers name
RentalFields == {"id", "reservation", "lender", "return_processor"}

AnonymousUser == [is_staff |-> FALSE]

\* kwargs.get('context', {}).get('request')
request_of(kwargs) ==
    IF kwargs.context = <<>> THEN <<>> ELSE kwargs.context[1].request

\* faulty variant: only return_processor is popped
RentalSerializer_fields_KeepsLender(kwargs) ==
    LET rq == request_of(kwargs) IN
    IF rq = <<>> \/ ~ rq[1].user.is_staff
    THEN RentalFields \ {"return_processor"}
    ELSE RentalFields

\* __init__: the fields the serializer is left with
RentalSerializer_fields(kwargs) ==
    LET rq == request_of(kwargs) IN
    IF rq = <<>> \/ ~ rq[1].user.is_staff
    THEN (RentalFields \ {"return_processor"}) \ {"lender"}
    ELSE RentalFields

RentalSerializer(kwargs) ==
    /\ serializer' = <<[kwargs |-> kwargs,
                        fields |-> RentalSerializer_fields(kwargs)]>>
    /\ UNCHANGED <<settings, resVars, concVars, users, registration,
                   regOutcome>>

\* the keyword arguments a view may build the serializer with
SerializerKwargs ==
    {[context |-> <<>>], [context |-> <<[request |-> <<>>]>>]}
    \cup {[context |-> <<[request |-> <<[user |-> [is_staff |-> u.is_staff]]>>]>>] :
            u \in users \cup {AnonymousUser}}

-----------------------------------------------------------------------------
(* SettingsSerializer: a staff member changes a setting *)

DayValues == {<<"4">>, <<"6">>}

UpdateSetting(type, value) ==
    /\ settings' = [settings EXCEPT ![type] = value]
    /\ UNCHANGED <<resVars, concVars, userVars>>

-----------------------------------------------------------------------------

Init ==
    /\ settings = [lenting_day |-> str(DEFAULT_LENTING_DAY_OF_WEEK),
                   returning_day |-> str(DEFAULT_RETURNING_DAY_OF_WEEK),
                   email_validation_regex |-> EMAIL_VALIDATION_REGEX]
    /\ reservations = {}
    /\ request = <<>>
    /\ lastOutcome = None
    /\ pc = [p \in Procs |-> "idle"]
    /\ req = [p \in Procs |-> <<>>]
    /\ verdict = [p \in Procs |-> None]
    /\ users = {}
    /\ registration = <<>>
    /\ regOutcome = [raised |-> None, username |-> None, email |-> None,
                     created |-> FALSE]
    /\ serializer = <<>>

Reserve == \E data \in ReservationData : ReceiveReservation(data)

ChangeDay == \E type \in {"lenting_day", "returning_day"}, value \in DayValues :
                UpdateSetting(type, value)

Next == Reserve \/ CreateReservation \/ ChangeDay

Spec == Init /\ [][Next]_vars

ReceiveConcurrent == \E p \in Procs, data \in ConcurrentData : Receive(p, data)

ValidateConcurrent == \E p \in Procs : IsValid(p)

SaveConcurrent == \E p \in Procs : Save(p)

NextConc == ReceiveConcurrent \/ ValidateConcurrent \/ SaveConcurrent

SpecConc == Init /\ [][NextConc]_vars

Register == \E data \in RegistrationData : ReceiveRegistration(data)

ChangeRegex == \E value \in RegexValues :
                  UpdateSetting("email_validation_regex", value)

MakeStaff == \E u \in users, is_staff \in BOOLEAN : AdminUpdate(u, is_staff)

BuildRentalSerializer == \E kwargs \in SerializerKwargs : RentalSerializer(kwargs)

NextUsers == Register \/ CreateUser \/ ChangeRegex \/ MakeStaff
                \/ BuildRentalSerializer

SpecUsers == Init /\ [][NextUsers]_vars

NextReg == Register \/ CreateUser

SpecReg == Init /\ [][NextReg]_vars

-----------------------------------------------------------------------------
(* The claims *)

\* a step in which the pending reservation request is handled
ReservationHandled == request # <<>> /\ request' = <<>>

\* a step in which the pending registration is handled
RegistrationHandled == registration # <<>> /\ registration' = <<>>

Duration(d) == d.reserved_until - d.reserved_from

ConfiguredMax(d) == max_rent_duration(d.objecttype, d.reserver.prio).duration

ExceedsError == "the rent duration exceeds max_rent_duration."

NotEnoughError ==
    "There are not enough objects of this type to fullfill your reservation"

\* C1, as claimed: a reservation is accepted only if its duration does not
\* exceed the maximum rent duration configured for its object type and the
\* reserver's priority (so that every longer one is rejected)
C1_AsClaimed ==
    [][(ReservationHandled /\ lastOutcome' = "valid")
          => Duration(request[1]) <= ConfiguredMax(request[1])]_vars

\* C1, amended: a reservation is accepted only if its duration does not
\* exceed the configured maximum rent duration by more than seven days, and
\* validate() rejects every reservation that is longer than the maximum plus
\* seven days with 'the rent duration exceeds max_rent_duration.'
C1_Amended ==
    [][ReservationHandled =>
        LET d == request[1] IN
        /\ lastOutcome' = "valid" => Duration(d) <= ConfiguredMax(d) + 7
        /\ (UniqueTogether(reservations, d) /\ Duration(d) > ConfiguredMax(d) + 7)
              => (lastOutcome' = ExceedsError /\ reservations' = reservations)]_vars

\* C1 witness: a stored reservation that is longer than the configured
\* maximum, and a later request rejected for its duration
C1_Witness ==
    /\ \E r \in reservations : Duration(r) > ConfiguredMax(r)
    /\ lastOutcome = ExceedsError

C3_WeekdaysMatchSettings ==
    [][ReservationHandled /\ lastOutcome' = "valid" =>
        LET d == request[1] IN
        /\ isoweekday(d.reserved_from) = int(settings.lenting_day)
        /\ isoweekday(d.reserved_until) = int(settings.returning_day)
        /\ reservations' # reservations]_vars

\* C3 witness: a reservation accepted under changed settings, lenting on a
\* Saturday and returning on a Thursday
C3_Witness ==
    /\ lastOutcome = "valid"
    /\ settings.lenting_day = <<"6">>
    /\ settings.returning_day = <<"4">>
    /\ \E r \in reservations : /\ isoweekday(r.reserved_from) = 6
                               /\ isoweekday(r.reserved_until) = 4

\* what it means for a whole string to match a pattern
RECURSIVE Denotes(_, _)
Denotes(r, s) ==
    CASE r.kind \in {"in", "not_in"} -> Len(s) = 1 /\ CharMatches(r, s[1])
      [] r.kind = "opt" -> s = <<>> \/ Denotes(r.sub[1], s)
      [] r.kind = "plus" ->
            \E k \in 1..Len(s) :
                /\ Denotes(r.sub[1], SubSeq(s, 1, k))
                /\ k = Len(s) \/ Denotes(r, SubSeq(s, k + 1, Len(s)))
      [] r.kind = "cat" ->
            IF r.sub = <<>> THEN s = <<>>
            ELSE \E k \in 0..Len(s) :
                    /\ Denotes(Head(r.sub), SubSeq(s, 1, k))
                    /\ Denotes(Cat(Tail(r.sub)), SubSeq(s, k + 1, Len(s)))

\* the e-mails of the model that each value of the setting matches entirely
EntirelyMatching == [p \in RegexValues |-> {e \in Emails : Denotes(p, e)}]

\* C4: validate_email accepts an e-mail only if the entire e-mail matches the
\* regular expression of the email_validation_regex setting; every other
\* e-mail is rejected with 'Email ist im falsche Format' and no user is
\* created
C4_EntireEmailMatches ==
    [][RegistrationHandled =>
        LET email == registration[1].email
            entire == email \in EntirelyMatching[settings.email_validation_regex]
        IN
        /\ regOutcome'.email = None => entire
        /\ ~ entire => /\ regOutcome'.email = "Email ist im falsche Format"
                       /\ users' = users]_vars

\* C4 witness: with a user registered, a registration is rejected for the
\* format of its e-mail
C4_Witness ==
    /\ users # {}
    /\ regOutcome.email = "Email ist im falsche Format"

UniqueEmails == \A u, v \in users : u.email = v.email => u = v

C6_CreatedInactiveWithoutGroups ==
    [][RegistrationHandled =>
        \A u \in users' \ users : u.is_active = FALSE /\ u.groups = {}]_vars

\* C6 witness: a registration has created a user
C6_Witness ==
    /\ regOutcome.created
    /\ \E u \in users : ~ u.is_active /\ u.groups = {}

\* the serializer was built without a request or for a user who is not staff
BuiltWithoutStaff(sz) ==
    \/ sz.kwargs.context = <<>>
    \/ sz.kwargs.context[1].request = <<>>
    \/ ~ sz.kwargs.context[1].request[1].user.is_staff

\* C7: a RentalSerializer built without a request, or with the request of a
\* user who is not staff, has neither the lender nor the return_processor
\* field; one built with a staff user's request has both
C7_StaffOnlyFields ==
    serializer # <<>> =>
        LET sz == serializer[1] IN
        IF BuiltWithoutStaff(sz)
        THEN sz.fields \cap {"lender", "return_processor"} = {}
        ELSE {"lender", "return_processor"} \subseteq sz.fields

\* C7 witness: a serializer built with the request of a user who is not
\* staff, while a staff user exists
C7_Witness ==
    /\ serializer # <<>>
    /\ serializer[1].kwargs.context # <<>>
    /\ serializer[1].kwargs.context[1].request # <<>>
    /\ ~ serializer[1].kwargs.context[1].request[1].user.is_staff
    /\ \E u \in users : u.is_staff
    /\ "lender" \notin serializer[1].fields

\* C8, as claimed: when two requests for the same object type with
\* overlapping date ranges have been validated and saved concurrently, the
\* counts of the reservations stored add up to no more than the number of
\* objects that was available for the type and date range before either
\* started
C8_StoredWithinAvailable ==
    (\A p \in Procs : pc[p] = "done") =>
        \A p \in Procs :
            LET d == req[p][1] IN
            SumCounts(Overlapping(reservations, d.objecttype, d.reserved_from,
                                  d.reserved_until))
              <= available({}, d.objecttype, d.reserved_from,
                           d.reserved_until).available

====
